---- MODULE Spec2Model ----
(***************************************************************************)
(* A model of top-crates.py: the SemVer value and requirement matcher      *)
(* (class SemVer), the version selector (SemVer.find_matching), and the    *)
(* seed builder, resolver and index materializer (class TopCrates).        *)
(*                                                                         *)
(* Strings.  A Python string is modelled as the sequence of its lexical    *)
(* tokens: a run of digits ("0", "12", "9999999"), an alphanumeric         *)
(* identifier ("alpha"), or one punctuation character ("." "-" "+" ","     *)
(* " " "*" "^" "~" "=" "<" ">").  "1.2.3-alpha" is                         *)
(* <<"1", ".", "2", ".", "3", "-", "alpha">>.  Slicing, split, strip,      *)
(* find, equality, int() and formatting are computed on these sequences.   *)
(* Package names, which the code slices by character, are sequences of     *)
(* characters.                                                             *)
(***************************************************************************)
EXTENDS Integers, Sequences, FiniteSets, TLC

VARIABLES
    phase,            \* which part of the program the behaviour exercises
    self_v,           \* matcher: the SemVer object match() is called on
    pattern,          \* matcher / selector: the requirement string
    result,           \* matcher: what match() returned ("none" before the call)
    versions,         \* selector: the dict find_matching iterates (list of <<v, item>>)
    fm,               \* selector: find_matching's locals i, m, m_yanked, last, ret
    exclusions,       \* TopCrates.exclusions (the patterns of the configuration)
    index,            \* the files of crates.io-index: name -> lines
    crates,           \* TopCrates.crates: the worklist, name -> set of requirements
    seeded,           \* history: every (name, requirement) handed to add() while seeding
    seen,             \* resolve_deps' local seen
    n,                \* resolve_deps' local n
    max_iterations,   \* resolve_deps' parameter
    overrun,          \* whether "too many iterations" was printed
    expanded,         \* history: how often each (name, vers) had its deps expanded
    selected_crates,  \* TopCrates.selected_crates (<<>> stands for None)
    index_dir,        \* the files under make_index's index_dir: path -> lines
    name_bound,       \* whether resolve_deps' local name has been assigned
    prefix,           \* _prefix_name: the name it is called on and what it returned
    top,              \* _get_top's locals count and page, and the requests it made
    crates_dir,       \* the files of download_crates' crates_dir: file -> content
    dl                \* download_crates: its locals, its pool's tasks, how it ended

vars == <<phase, self_v, pattern, result, versions, fm, exclusions, index, crates,
          seeded, seen, n, max_iterations, overrun, expanded, selected_crates,
          index_dir, name_bound, prefix, top, crates_dir, dl>>

-----------------------------------------------------------------------------
(* Bounds of the model and constants of the program. *)

\* version components of the inputs range over 0..MaxNum
MaxNum == 2
\* the number the code pads a partial upper bound with
BigPad == 9999999

-----------------------------------------------------------------------------
(* String helpers: what str.find, str.split, str.strip, int() do. *)

Min(a, b) == IF a < b THEN a ELSE b

Range(s) == {s[i] : i \in 1..Len(s)}

\* str.find: the first index of tok, 0 (Python's -1) when absent
Find(s, tok) ==
    IF tok \in Range(s) THEN CHOOSE i \in 1..Len(s) : s[i] = tok /\ \A j \in 1..(i-1) : s[j] # tok
    ELSE 0

RECURSIVE Split(_, _)
Split(s, sep) ==
    LET i == Find(s, sep) IN
    IF i = 0 THEN <<s>>
    ELSE <<SubSeq(s, 1, i - 1)>> \o Split(SubSeq(s, i + 1, Len(s)), sep)

RECURSIVE LStrip(_)
LStrip(s) == IF s # <<>> /\ Head(s) = " " THEN LStrip(Tail(s)) ELSE s

RECURSIVE RStrip(_)
RStrip(s) == IF s # <<>> /\ s[Len(s)] = " " THEN RStrip(SubSeq(s, 1, Len(s) - 1)) ELSE s

Strip(s) == RStrip(LStrip(s))

\* the digit runs the model knows: the inputs' components, one more (a bound
\* synthesized by ^ or ~ adds 1), and the padding number
Numbers == (0..(MaxNum + 1)) \cup {BigPad}

\* re.match("^[0-9]+$", text)
IsDigits(text) == \E k \in Numbers : <<ToString(k)>> = text

\* int(text), for a text of digits
int(text) == CHOOSE k \in Numbers : <<ToString(k)>> = text

\* the alphanumeric identifiers the model knows, in Python's str order
AlnumOrder == <<"alpha", "beta", "rc">>

IsAlnum(tok) == tok \in Range(AlnumOrder)

\* len() of a string: the characters of its tokens
RECURSIVE StrLen(_)
StrLen(s) == IF s = <<>> THEN 0 ELSE Len(Head(s)) + StrLen(Tail(s))

-----------------------------------------------------------------------------
(* class SemVer *)

\* one or more identifiers separated by dots
IsIdentList(s) ==
    /\ Len(s) % 2 = 1
    /\ \A i \in 1..Len(s) :
          IF i % 2 = 1 THEN IsDigits(<<s[i]>>) \/ IsAlnum(s[i]) ELSE s[i] = "."

\* SemVer._REGEX.match(version).groups(); <<>> stands for None (no match)
_REGEX(version) ==
    LET plus  == Find(version, "+")
        front == IF plus = 0 THEN version ELSE SubSeq(version, 1, plus - 1)
        build == IF plus = 0 THEN <<>> ELSE SubSeq(version, plus + 1, Len(version))
        pre   == IF Len(front) > 5 THEN SubSeq(front, 7, Len(front)) ELSE <<>>
        ok    == /\ Len(front) >= 5
                 /\ IsDigits(<<front[1]>>) /\ front[2] = "." /\ IsDigits(<<front[3]>>)
                 /\ front[4] = "." /\ IsDigits(<<front[5]>>)
                 /\ Len(front) > 5 => (front[6] = "-" /\ IsIdentList(pre))
                 /\ plus # 0 => IsIdentList(build)
    IN IF ok THEN <<<<front[1]>>, <<front[3]>>, <<front[5]>>, pre, build>> ELSE <<>>

\* SemVer.__str__, from the parts tuple
__str__(parts) ==
    <<ToString(parts[1]), ".", ToString(parts[2]), ".", ToString(parts[3])>>
    \o (IF parts[4] # <<>> THEN <<"-">> \o parts[4] ELSE <<>>)
    \o (IF parts[5] # <<>> THEN <<"+">> \o parts[5] ELSE <<>>)

\* SemVer.__init__: the object (raw_version, parts); a missing prerelease or
\* build (None) is the empty string <<>>, which the code tests the same way
SemVer(version) ==
    LET g == _REGEX(version) IN
    [raw_version |-> version,
     parts |-> <<int(g[1]), int(g[2]), int(g[3]), g[4], g[5]>>]

\* whether SemVer(version) returns instead of raising ValueError or failing its
\* assert str(self) == version
IsSemVer(version) ==
    /\ _REGEX(version) # <<>>
    /\ __str__(SemVer(version).parts) = version

\* compare._cmp on integers
_cmp(a, b) == (IF a > b THEN 1 ELSE 0) - (IF a < b THEN 1 ELSE 0)

\* compare._cmp on tuples of integers of the same length (Python's tuple order)
RECURSIVE _cmp_tuple(_, _)
_cmp_tuple(a, b) ==
    IF a = <<>> THEN 0
    ELSE IF Head(a) # Head(b) THEN _cmp(Head(a), Head(b))
    ELSE _cmp_tuple(Tail(a), Tail(b))

\* compare._cmp on two identifier strings (Python's str order)
_cmp_str(a, b) ==
    LET rank(t) == CHOOSE i \in 1..Len(AlnumOrder) : AlnumOrder[i] = t
    IN _cmp(rank(a[1]), rank(b[1]))

\* _nat_cmp.convert: an int for a digit run, else the text
convert(text) ==
    IF IsDigits(text)
    THEN [isint |-> TRUE, int |-> int(text), text |-> <<>>]
    ELSE [isint |-> FALSE, int |-> 0, text |-> text]

\* _nat_cmp.split_key
split_key(key) == LET c == Split(key, ".") IN [i \in 1..Len(c) |-> convert(c[i])]

\* _nat_cmp.cmp_prerelease_tag
cmp_prerelease_tag(a, b) ==
    IF a.isint /\ b.isint THEN _cmp(a.int, b.int)
    ELSE IF a.isint THEN -1
    ELSE IF b.isint THEN 1
    ELSE _cmp_str(a.text, b.text)

\* the loop of _nat_cmp over zip(a_parts, b_parts), from position i; 0 stands for
\* the loop running out, where the for's else clause takes over
RECURSIVE _nat_cmp_loop(_, _, _)
_nat_cmp_loop(a_parts, b_parts, i) ==
    IF i > Min(Len(a_parts), Len(b_parts)) THEN 0
    ELSE LET cmp_result == cmp_prerelease_tag(a_parts[i], b_parts[i]) IN
         IF cmp_result # 0 THEN cmp_result
         ELSE _nat_cmp_loop(a_parts, b_parts, i + 1)

\* _nat_cmp without the comparison of the lengths after the loop
_nat_cmp_loop_only(a, b) == _nat_cmp_loop(split_key(a), split_key(b), 1)

\* compare._nat_cmp
_nat_cmp(a, b) ==
    LET r == _nat_cmp_loop(split_key(a), split_key(b), 1) IN
    IF r # 0 THEN r ELSE _cmp(StrLen(a), StrLen(b))

\* compare with the strict flag never honoured: the prerelease always decides
compare_never_strict(self, other, strict) ==
    LET c   == _cmp_tuple(SubSeq(self.parts, 1, 3), SubSeq(other.parts, 1, 3))
        rc1 == self.parts[4]
        rc2 == other.parts[4]
    IN IF c # 0 THEN c
       ELSE IF rc1 = <<>> /\ rc2 = <<>> THEN c
       ELSE IF rc1 = <<>> THEN 1
       ELSE IF rc2 = <<>> THEN -1
       ELSE _nat_cmp(rc1, rc2)

\* compare with the prerelease never looked at
compare_always_strict(self, other, strict) ==
    _cmp_tuple(SubSeq(self.parts, 1, 3), SubSeq(other.parts, 1, 3))

\* SemVer.compare(self, other, strict), other already a SemVer
compare(self, other, strict) ==
    LET c   == _cmp_tuple(SubSeq(self.parts, 1, 3), SubSeq(other.parts, 1, 3))
        rc1 == self.parts[4]
        rc2 == other.parts[4]
    IN IF c # 0 \/ strict THEN c
       ELSE IF rc1 = <<>> /\ rc2 = <<>> THEN c
       ELSE IF rc1 = <<>> THEN 1
       ELSE IF rc2 = <<>> THEN -1
       ELSE _nat_cmp(rc1, rc2)

\* _caret_requirement with the major version always the one that may not change
_caret_requirement_major_only(pat) ==
    LET a      == Split(Tail(pat), ".")
        length == Len(a)
        min_pattern ==
            <<">", "=">> \o Tail(pat)
            \o (IF length = 1 THEN <<".", "0", ".", "0">>
                ELSE IF length = 2 THEN <<".", "0">>
                ELSE <<>>)
    IN <<min_pattern, <<"<", ToString(int(a[1]) + 1), ".", "0", ".", "0">>>>

\* SemVer._caret_requirement: <<min_pattern, max_pattern>>
_caret_requirement(pat) ==
    LET a      == Split(Tail(pat), ".")
        length == Len(a)
        min_pattern ==
            <<">", "=">> \o Tail(pat)
            \o (IF length = 1 THEN <<".", "0", ".", "0">>
                ELSE IF length = 2 THEN <<".", "0">>
                ELSE <<>>)
        max_pattern ==
            IF a[1] = <<"0">>
            THEN IF length = 1 THEN <<"<", "1", ".", "0", ".", "0">>
                 ELSE IF Len(a) = 2
                      THEN <<"<", "0", ".", ToString(int(a[2]) + 1), ".", "0">>
                 ELSE IF a[2] = <<"0">>
                      THEN <<"<", "0", ".">> \o a[2] \o <<".", ToString(int(a[3]) + 1)>>
                 ELSE <<"<", "0", ".", ToString(int(a[2]) + 1), ".", "0">>
            ELSE <<"<", ToString(int(a[1]) + 1), ".", "0", ".", "0">>
    IN <<min_pattern, max_pattern>>

\* _tilde_requirement with the length test of the upper bound off by one
_tilde_requirement_off_by_one(pat) ==
    LET a      == Split(Tail(pat), ".")
        length == Len(a)
        min_pattern ==
            <<">", "=">> \o Tail(pat)
            \o (IF length = 1 THEN <<".", "0", ".", "0">>
                ELSE IF length = 2 THEN <<".", "0">>
                ELSE <<>>)
        max_pattern ==
            IF length <= 2
            THEN <<"<", ToString(int(a[1]) + 1), ".", "0", ".", "0">>
            ELSE <<"<">> \o a[1] \o <<".", ToString(int(a[2]) + 1), ".", "0">>
    IN <<min_pattern, max_pattern>>

\* SemVer._tilde_requirement: <<min_pattern, max_pattern>>
_tilde_requirement(pat) ==
    LET a      == Split(Tail(pat), ".")
        length == Len(a)
        min_pattern ==
            <<">", "=">> \o Tail(pat)
            \o (IF length = 1 THEN <<".", "0", ".", "0">>
                ELSE IF length = 2 THEN <<".", "0">>
                ELSE <<>>)
        max_pattern ==
            IF length = 1
            THEN <<"<", ToString(int(a[1]) + 1), ".", "0", ".", "0">>
            ELSE <<"<">> \o a[1] \o <<".", ToString(int(a[2]) + 1), ".", "0">>
    IN <<min_pattern, max_pattern>>

\* re.match("^" + re.escape(p).replace("\*", ".*") + "$", s): "*" stands for any
\* run, every other element for itself
RECURSIVE Glob(_, _)
Glob(p, s) ==
    IF p = <<>> THEN s = <<>>
    ELSE IF Head(p) = "*" THEN Glob(Tail(p), s) \/ (s # <<>> /\ Glob(p, Tail(s)))
    ELSE s # <<>> /\ Head(p) = Head(s) /\ Glob(Tail(p), Tail(s))

\* the padding of a partial version after >=, > ("0") and after <=, < (BigPad)
Pad(p, fill) ==
    IF IsDigits(p) THEN p \o <<".", fill, ".", fill>>
    ELSE IF Len(p) = 3 /\ IsDigits(<<p[1]>>) /\ p[2] = "." /\ IsDigits(<<p[3]>>)
         THEN p \o <<".", fill>>
    ELSE p

\* SemVer.match._expr(pattern, strict) with self made a parameter
RECURSIVE _expr(_, _, _)
_expr(self, pattern0, strict) ==
    LET pat == Strip(pattern0) IN
    IF pat[1] = "^"
    THEN LET p == _caret_requirement(pat) IN
         _expr(self, p[1], FALSE) /\ _expr(self, p[2], TRUE)
    ELSE IF pat[1] = "~"
    THEN LET p == _tilde_requirement(pat) IN
         _expr(self, p[1], FALSE) /\ _expr(self, p[2], TRUE)
    ELSE IF pat = <<"*">> THEN TRUE
    ELSE IF pat[1] = "="
    THEN LET p == LStrip(Tail(pat)) IN
         IF p # self.raw_version
         THEN LET b         == Split(p, ".")
                  padded    == IF Len(b) = 2 THEN p \o <<".", "0">>
                               ELSE IF Len(b) = 1 THEN p \o <<".", "0", ".", "0">>
                               ELSE p
                  a         == SemVer(padded)
                  min_parts == Min(Len(self.parts), Len(b))
              IN SubSeq(self.parts, 1, min_parts) = SubSeq(a.parts, 1, min_parts)
         ELSE p = self.raw_version
    ELSE IF SubSeq(pat, 1, 2) = <<">", "=">>
    THEN compare(self, SemVer(Pad(LStrip(SubSeq(pat, 3, Len(pat))), "0")), FALSE) >= 0
    ELSE IF SubSeq(pat, 1, 2) = <<"<", "=">>
    THEN compare(self, SemVer(Pad(LStrip(SubSeq(pat, 3, Len(pat))), ToString(BigPad))), FALSE) <= 0
    ELSE IF pat[1] = ">"
    THEN compare(self, SemVer(Pad(LStrip(Tail(pat)), "0")), FALSE) > 0
    ELSE IF pat[1] = "<"
    THEN compare(self, SemVer(Pad(LStrip(Tail(pat)), ToString(BigPad))), strict) < 0
    ELSE IF Find(pat, "*") # 0 THEN Glob(pat, self.raw_version)
    ELSE pat = self.raw_version

\* SemVer.match(self, pattern)
match(self, pat) ==
    LET clauses == Split(pat, ",") IN
    \A i \in 1..Len(clauses) : _expr(self, clauses[i], FALSE)

\* find_matching's locals before its loop; <<>> stands for None
fm_start == [m |-> <<>>, m_yanked |-> <<>>, last |-> <<>>]

\* the body of the loop without the test of item["yanked"]
fm_body_ignore_yanked(pat, st, w, item) ==
    IF match(w, pat) /\ (st.m = <<>> \/ compare(w, st.m[1], FALSE) > 0)
    THEN [st EXCEPT !.m = <<w, item>>]
    ELSE st

\* the body of find_matching's loop after "last = item; w = SemVer(v)"
fm_body(pat, st, w, item) ==
    IF match(w, pat)
    THEN IF item.yanked = FALSE
         THEN IF st.m = <<>> \/ compare(w, st.m[1], FALSE) > 0
              THEN [st EXCEPT !.m = <<w, item>>]
              ELSE st
         ELSE IF st.m_yanked = <<>> \/ compare(w, st.m_yanked[1], FALSE) > 0
              THEN [st EXCEPT !.m_yanked = <<w, item>>]
              ELSE st
    ELSE st

\* one iteration of find_matching's loop, on the dict item <<v, item>>
fm_step(pat, st, kv) ==
    fm_body(pat, [st EXCEPT !.last = kv[2]], SemVer(kv[1]), kv[2])

\* find_matching after its loop: the item returned and the lines printed
fm_return(st) ==
    LET m1 == IF st.m_yanked # <<>> /\ st.m = <<>> THEN st.m_yanked ELSE st.m IN
    IF m1 = <<>>
    THEN [ret |-> st.last,
          printed |-> <<"WARNING: no matching version found, using latest version">>]
    ELSE [ret |-> m1[2], printed |-> <<>>]

RECURSIVE fm_loop(_, _, _, _)
fm_loop(pat, vs, i, st) ==
    IF i > Len(vs) THEN st ELSE fm_loop(pat, vs, i + 1, fm_step(pat, st, vs[i]))

\* SemVer.find_matching(pattern, versions), versions the items of the dict in
\* insertion order
find_matching(pat, vs) == fm_return(fm_loop(pat, vs, 1, fm_start)).ret

-----------------------------------------------------------------------------
(* The requirement matcher as a state machine: match() is called once on a *)
(* version and a requirement drawn from the sets below.                    *)

\* f"{a}.{b}.{c}"
V3(a, b, c) == <<ToString(a), ".", ToString(b), ".", ToString(c)>>

Cores == {V3(a, b, c) : a, b, c \in 0..MaxNum}

Suffixes == {<<>>, <<"-", "alpha">>, <<"+", "rc">>}

VersionStrings == {c \o x : c \in Cores, x \in Suffixes}

\* version literals of one, two or three numeric components
Partials ==
    {<<ToString(a)>> : a \in 0..MaxNum}
    \cup {<<ToString(a), ".", ToString(b)>> : a, b \in 0..MaxNum}
    \cup Cores

Comparators == {<<"^">>, <<"~">>, <<"=">>, <<">", "=">>, <<"<", "=">>, <<">">>, <<"<">>}

Clauses ==
    {op \o v : op \in Comparators, v \in Partials}
    \cup {<<"=">> \o c \o <<"-", "alpha">> : c \in Cores}
    \cup {<<"*">>}
    \cup Cores
    \cup {<<ToString(a), ".", ToString(b), ".", "*">> : a, b \in 0..MaxNum}

Requirements ==
    Clauses
    \cup {<<">", "=">> \o c \o <<",", " ", "<", "2", ".", "0", ".", "0">> : c \in Cores}

\* the values of the variables a behaviour does not use
IdleMatch == self_v = SemVer(V3(0, 0, 0)) /\ pattern = <<"*">> /\ result = "none"
IdleSelect == versions = <<>> /\ fm = [i |-> 0, st |-> fm_start, ret |-> <<>>, printed |-> <<>>]
IdleResolve ==
    /\ exclusions = {} /\ index = <<>> /\ crates = <<>> /\ seeded = {} /\ seen = {}
    /\ n = 0 /\ max_iterations = 0 /\ overrun = FALSE /\ expanded = <<>>
    /\ selected_crates = <<>> /\ index_dir = <<>> /\ name_bound = FALSE
IdlePrefix == prefix = [name |-> <<>>, ret |-> <<>>]
IdleTop == top = [N |-> 0, count |-> 0, page |-> 0, urls |-> <<>>, stage |-> "idle"]
IdleFetch ==
    /\ crates_dir = <<>>
    /\ dl = [stage |-> "idle", run |-> 0, purge |-> FALSE, downloads |-> <<>>,
             task |-> <<>>, before |-> <<>>, prev |-> "none", printed |-> <<>>,
             num |-> 0, lock |-> 0, value |-> <<>>]
IdleCalls == IdlePrefix /\ IdleTop /\ IdleFetch

MatchInit ==
    /\ phase = "match"
    /\ self_v \in {SemVer(v) : v \in VersionStrings}
    /\ pattern \in Requirements
    /\ result = "none"
    /\ IdleSelect /\ IdleResolve /\ IdleCalls

\* the call self_v.match(pattern)
Match ==
    /\ phase = "match" /\ result = "none"
    /\ result' = IF match(self_v, pattern) THEN "True" ELSE "False"
    /\ UNCHANGED <<phase, self_v, pattern, versions, fm, exclusions, index, crates,
                   seeded, seen, n, max_iterations, overrun, expanded,
                   selected_crates, index_dir, name_bound,
                   prefix, top, crates_dir, dl>>

MatchNext == Match

SpecMatch == MatchInit /\ [][MatchNext]_vars

-----------------------------------------------------------------------------
(* class TopCrates: the worklist, the resolver, the index materializer. *)

\* a line of an index file, json.loads(line)
Record(name, vers, yanked, deps) ==
    [name |-> name, vers |-> vers, yanked |-> yanked, deps |-> deps]

\* any(e.match(name) for e in self.exclusions), e compiled from "^...$" with
\* every * of the configured pattern standing for any run of characters
Excluded(name) == \E e \in exclusions : Glob(e, name)

\* add without the test of the exclusions
add_unchecked(cr, name, version) ==
    [x \in DOMAIN cr \cup {name} |->
        IF x = name
        THEN (IF x \in DOMAIN cr THEN cr[x] ELSE {}) \cup {version}
        ELSE cr[x]]

\* add with the requirement replacing the set of the package, not joining it
add_replacing(cr, name, version) ==
    IF \E e \in exclusions : Glob(e, name) THEN cr
    ELSE [x \in DOMAIN cr \cup {name} |-> IF x = name THEN {version} ELSE cr[x]]

\* TopCrates.add(name, version) on the defaultdict(set) cr: the new dict
add(cr, name, version) ==
    IF Excluded(name) THEN cr
    ELSE [x \in DOMAIN cr \cup {name} |->
             IF x = name
             THEN (IF x \in DOMAIN cr THEN cr[x] ELSE {}) \cup {version}
             ELSE cr[x]]

\* TopCrates._prefix_name(name), name and the path sequences of characters
_prefix_name(name) ==
    LET l == Len(name) IN
    IF l = 1 THEN <<"1", "/">> \o name
    ELSE IF l = 2 THEN <<"2", "/">> \o name
    ELSE IF l = 3 THEN <<"3", "/", name[1], "/">> \o name
    ELSE SubSeq(name, 1, 2) \o <<"/">> \o SubSeq(name, 3, 4) \o <<"/">> \o name

\* info_file.is_file() for the index file of a package
is_file(name) == _prefix_name(name) \in DOMAIN index

\* info[latest] = data on the dict info, kept as its items in insertion order:
\* a key already there keeps its place and takes the new value
dict_set(info, key, data) ==
    IF \E i \in 1..Len(info) : info[i][1] = key
    THEN [i \in 1..Len(info) |-> IF info[i][1] = key THEN <<key, data>> ELSE info[i]]
    ELSE Append(info, <<key, data>>)

\* the loop of resolve_deps over the lines of the index file; a line is the
\* sequence of the JSON values on it and json.loads(line) is line[1]
RECURSIVE read_info(_, _, _)
read_info(lines, i, info) ==
    IF i > Len(lines) THEN info
    ELSE read_info(lines, i + 1, dict_set(info, lines[i][1].vers, lines[i][1]))

\* the dict info resolve_deps builds for a package that has an index file
info_of(name) == read_info(index[_prefix_name(name)], 1, <<>>)

\* the local latest after that loop: the vers of the last line (<<>>: None)
latest_of(name) ==
    LET lines == index[_prefix_name(name)] IN
    IF lines = <<>> THEN <<>> ELSE lines[Len(lines)][1].vers

\* the name of a dependency with its package key never looked at
dep_name_ignoring_package(dep) == dep.name

\* the name a dependency is added under: dep["package"] if "package" in dep
\* (an absent key is <<>>), else dep["name"]
dep_name(dep) == IF dep.package # <<>> THEN dep.package ELSE dep.name

\* "name not in seen" negated: seen holds (crate, vers) tuples and name is a
\* str, which equals no tuple
name_in_seen(name, sn) == FALSE

\* the test of the slug never finding it
slug_in_seen_never(slug, sn) == FALSE

\* "slug in seen"
slug_in_seen(slug, sn) == slug \in sn

\* the loop over k["deps"], from dep i: the worklist after it and whether the
\* assert False of its else branch was reached
RECURSIVE for_deps(_, _, _, _)
for_deps(deps, i, sn, st) ==
    IF i > Len(deps) \/ st.failed THEN st
    ELSE LET name == dep_name(deps[i])
             req  == deps[i].req
         IN IF ~name_in_seen(name, sn)
            THEN for_deps(deps, i + 1, sn, [st EXCEPT !.crates = add(@, name, req)])
            ELSE [st EXCEPT !.failed = TRUE]

\* one more expansion of the slug in the history
Count(ex, slug) ==
    [x \in DOMAIN ex \cup {slug} |->
        IF x = slug THEN (IF x \in DOMAIN ex THEN ex[x] ELSE 0) + 1 ELSE ex[x]]

\* the body of the loop with seen forgotten at every new pair
do_vers_forgetful(crate, k, st) ==
    IF <<crate, k.vers>> \in st.seen THEN st
    ELSE for_deps(k.deps, 1, {<<crate, k.vers>>},
                  [st EXCEPT !.seen = {<<crate, k.vers>>},
                             !.expanded = Count(@, <<crate, k.vers>>),
                             !.name_bound = @ \/ k.deps # <<>>])

\* the body of the loop "for vers in versions" once find_matching returned k;
\* st holds seen, the worklist, the history of expansions, whether name was
\* assigned and whether an assert failed
do_vers(crate, k, st) ==
    IF slug_in_seen(<<crate, k.vers>>, st.seen) THEN st
    ELSE for_deps(k.deps, 1, st.seen \cup {<<crate, k.vers>>},
                  [st EXCEPT !.seen = @ \cup {<<crate, k.vers>>},
                             !.expanded = Count(@, <<crate, k.vers>>),
                             !.name_bound = @ \/ k.deps # <<>>])

\* the next requirement the loop takes from the set (no order matters)
Pick(todo) == CHOOSE v \in todo : TRUE

\* the loop "for vers in versions" over the requirements still to do
RECURSIVE for_vers(_, _, _, _)
for_vers(crate, info, todo, st) ==
    IF todo = {} \/ st.failed THEN st
    ELSE for_vers(crate, info, todo \ {Pick(todo)},
                  do_vers(crate, find_matching(Pick(todo), info), st))

\* selected_of that keeps one version of every name of seen
selected_of_one_version(sn) ==
    [name \in {slug[1] : slug \in sn} |->
        {(CHOOSE x \in sn : x[1] = name)[2]}]

\* the selected catalog: each name of seen with the versions seen pairs it with
\* (a list without repetition, in the order of iteration of a set)
selected_of(sn) ==
    [name \in {slug[1] : slug \in sn} |-> {slug[2] : slug \in {x \in sn : x[1] = name}}]

\* what make_index leaves under index_dir: the top-level directories with a
\* name of at most two characters removed, then a file written for every
\* selected package: the lines of its index file with a selected vers, and ""
top_of(path) == SubSeq(path, 1, Find(path, "/") - 1)

purged(tree) ==
    LET kept == {path \in DOMAIN tree :
                    ~(Find(path, "/") # 0 /\ Len(top_of(path)) <= 2)}
    IN [path \in kept |-> tree[path]]

\* the lines of the file all kept, whatever their vers
filter_lines_keep_all(lines, i, wanted) == lines

RECURSIVE filter_lines(_, _, _)
filter_lines(lines, i, wanted) ==
    IF i > Len(lines) THEN <<>>
    ELSE (IF lines[i][1].vers \in wanted THEN <<lines[i]>> ELSE <<>>)
         \o filter_lines(lines, i + 1, wanted)

make_index(tree, selected) ==
    LET old     == purged(tree)
        written == {_prefix_name(name) : name \in DOMAIN selected}
        name_at(path) == CHOOSE name \in DOMAIN selected : _prefix_name(name) = path
    IN [path \in DOMAIN old \cup written |->
           IF path \in written
           THEN filter_lines(index[path], 1, selected[name_at(path)]) \o << <<>> >>
           ELSE old[path]]

-----------------------------------------------------------------------------
(* The program as a state machine: seed building (every source of seeds    *)
(* ends in add), resolve_deps one loop iteration a step, make_index.       *)

\* the most seeds handed to add
MaxSeeds == 2
\* the most dependencies of a version record
MaxDeps == 2
\* the default of resolve_deps' max_iterations
DefaultMaxIterations == 20000
\* the max_iterations of the debug option -t
DebugMaxIterations == 1

\* package names
PkgA    == <<"a">>
PkgBB   == <<"b", "b">>
PkgWXY  == <<"w", "x", "y">>
PkgZZZZ == <<"z", "z", "z", "z">>
Alias   == <<"a", "l">>

Latest == <<"latest">>

\* an element of a version record's deps; package <<>> stands for no such key
Dep(name, package, req, kind, optional) ==
    [name |-> name, package |-> package, req |-> req, kind |-> kind,
     optional |-> optional]

\* the dependencies a version record may declare: one pinning a version of a,
\* one renamed (its name an alias, its package bb), one optional on a package
\* without index file, one on a package the configuration excludes
DepPool ==
    <<Dep(PkgA, <<>>, <<"=">> \o V3(1, 0, 0), "normal", FALSE),
      Dep(Alias, PkgBB, <<"*">>, "build", FALSE),
      Dep(PkgZZZZ, <<>>, <<"^", "1">>, "dev", TRUE),
      Dep(PkgWXY, <<>>, <<"*">>, "normal", FALSE)>>

RECURSIVE SeqOfPool(_, _)
SeqOfPool(S, i) ==
    IF i > Len(DepPool) THEN <<>>
    ELSE (IF i \in S THEN <<DepPool[i]>> ELSE <<>>) \o SeqOfPool(S, i + 1)

DepLists ==
    {SeqOfPool(S, 1) : S \in {T \in SUBSET (1..Len(DepPool)) : Cardinality(T) <= MaxDeps}}

\* crates.io-index: a has two versions, the later one yanked; bb has one; wxy,
\* which the configuration excludes, has one that depends on a
Indexes ==
    {[path \in {_prefix_name(PkgA), _prefix_name(PkgBB), _prefix_name(PkgWXY)} |->
         IF path = _prefix_name(PkgA)
         THEN << <<Record(PkgA, V3(1, 0, 0), FALSE, d1)>>,
                 <<Record(PkgA, V3(1, 1, 0), TRUE, d2)>> >>
         ELSE IF path = _prefix_name(PkgBB)
         THEN << <<Record(PkgBB, V3(0, 2, 0), FALSE, d3)>> >>
         ELSE << <<Record(PkgWXY, V3(1, 0, 0), FALSE, <<DepPool[1]>>)>> >>]
     : d1, d2, d3 \in DepLists}

\* what top_crates (a name and a version of the catalog), cookbook, curated and
\* load (a name and "latest") hand to add
SeedPool ==
    {<<PkgA, Latest>>, <<PkgA, V3(1, 0, 0)>>, <<PkgBB, V3(0, 2, 0)>>,
     <<PkgWXY, Latest>>}

\* the exclusions of top-crates.toml: "w*"
ConfExclusions == {<<"w", "*">>}

\* the index tree of an earlier run, made before wxy was excluded, beside the
\* registry's config.json
StaleTree ==
    [path \in {_prefix_name(PkgWXY), <<"config.json">>} |->
        IF path = <<"config.json">> THEN << <<>> >>
        ELSE << <<Record(PkgWXY, V3(1, 0, 0), FALSE, <<DepPool[1]>>)>>, <<>> >>]

\* the number of (package, version) pairs of the index
IndexPairs ==
    Cardinality(UNION {{<<path, i>> : i \in 1..Len(index[path])} : path \in DOMAIN index})

Init ==
    /\ phase = "seed"
    /\ exclusions = ConfExclusions
    /\ index \in Indexes
    /\ crates = <<>>
    /\ seeded = {}
    /\ seen = {}
    /\ n = 0
    /\ max_iterations = DefaultMaxIterations
    /\ overrun = FALSE
    /\ expanded = <<>>
    /\ selected_crates = <<>>
    /\ index_dir = StaleTree
    /\ name_bound = FALSE
    /\ IdleMatch /\ IdleSelect /\ IdleCalls

\* top_crates, cookbook, curated or load calls self.add(name, version)
Seed(name, version) ==
    /\ phase = "seed" /\ Cardinality(seeded) < MaxSeeds
    /\ <<name, version>> \notin seeded
    /\ crates' = add(crates, name, version)
    /\ seeded' = seeded \cup {<<name, version>>}
    /\ UNCHANGED <<phase, self_v, pattern, result, versions, fm, exclusions, index,
                   seen, n, max_iterations, overrun, expanded, selected_crates,
                   index_dir, name_bound,
                   prefix, top, crates_dir, dl>>

\* resolve_deps(k) is entered: seen = set(), n = 0
ResolveDeps(k) ==
    /\ phase = "seed"
    /\ phase' = "resolve"
    /\ max_iterations' = k
    /\ seen' = {} /\ n' = 0
    /\ UNCHANGED <<self_v, pattern, result, versions, fm, exclusions, index, crates,
                   seeded, overrun, expanded, selected_crates, index_dir, name_bound,
                   prefix, top, crates_dir, dl>>

\* the body of the while loop for the popped item (crate, versions), from
\* "crate, versions = self.crates.popitem()" to the end of the iteration:
\* the locals after it
iteration(crate) ==
    LET vs0  == crates[crate]
        rest == [x \in DOMAIN crates \ {crate} |-> crates[x]]
        st   == [seen |-> seen, crates |-> rest, expanded |-> expanded,
                 name_bound |-> name_bound, failed |-> FALSE]
    IN IF Excluded(crate)
       THEN \* print(f"excluded: {name} ..."): NameError while name is unassigned
            [st EXCEPT !.failed = ~name_bound]
       ELSE IF vs0 = {} THEN st
       ELSE IF ~is_file(crate) THEN st
       ELSE LET latest == latest_of(crate)
                vs     == IF latest # <<>> /\ Latest \in vs0
                          THEN (vs0 \ {Latest}) \cup {latest}
                          ELSE vs0
            IN for_vers(crate, info_of(crate), vs, st)

\* one iteration of the while loop that gets past the test of n: popitem
\* removes the last item on CPython 3.7 and later and any item before; the
\* model lets it remove any
Iterate(crate) ==
    /\ phase = "resolve" /\ crate \in DOMAIN crates
    /\ n + 1 <= max_iterations
    /\ n' = n + 1
    /\ \E st \in {iteration(crate)} :
          /\ seen' = st.seen
          /\ crates' = st.crates
          /\ expanded' = st.expanded
          /\ name_bound' = st.name_bound
          /\ phase' = IF st.failed THEN "crashed" ELSE phase
    /\ UNCHANGED <<self_v, pattern, result, versions, fm, exclusions, index, seeded,
                   max_iterations, overrun, selected_crates, index_dir,
                   prefix, top, crates_dir, dl>>

\* the iteration that prints "too many iterations" and breaks, and the code
\* after the loop
TooManyIterations ==
    /\ phase = "resolve" /\ DOMAIN crates # {}
    /\ n + 1 > max_iterations
    /\ n' = n + 1
    /\ overrun' = TRUE
    /\ selected_crates' = selected_of(seen)
    /\ phase' = "resolved"
    /\ UNCHANGED <<self_v, pattern, result, versions, fm, exclusions, index, crates,
                   seeded, seen, max_iterations, expanded, index_dir, name_bound,
                   prefix, top, crates_dir, dl>>

\* the loop ends with the worklist empty, and the code after the loop
Drained ==
    /\ phase = "resolve" /\ DOMAIN crates = {}
    /\ selected_crates' = selected_of(seen)
    /\ phase' = "resolved"
    /\ UNCHANGED <<self_v, pattern, result, versions, fm, exclusions, index, crates,
                   seeded, seen, n, max_iterations, overrun, expanded, index_dir,
                   name_bound,
                   prefix, top, crates_dir, dl>>

\* make_index()
MakeIndex ==
    /\ phase = "resolved"
    /\ index_dir' = make_index(index_dir, selected_crates)
    /\ phase' = "indexed"
    /\ UNCHANGED <<self_v, pattern, result, versions, fm, exclusions, index, crates,
                   seeded, seen, n, max_iterations, overrun, expanded,
                   selected_crates, name_bound,
                   prefix, top, crates_dir, dl>>

\* the names a worklist key can be
Names == {PkgA, PkgBB, PkgWXY, PkgZZZZ, Alias}

Next ==
    \/ \E s \in SeedPool : Seed(s[1], s[2])
    \/ \E k \in {DebugMaxIterations, IndexPairs + Cardinality(seeded) + 1,
                 DefaultMaxIterations} : ResolveDeps(k)
    \/ \E crate \in Names : Iterate(crate)
    \/ TooManyIterations
    \/ Drained
    \/ MakeIndex

Spec == Init /\ [][Next]_vars

-----------------------------------------------------------------------------
(* Properties of the resolver and the materializer. *)

\* resolve_deps has returned
Resolved == phase \in {"resolved", "indexed"}

\* the version records of the index
AllRecords ==
    UNION {{index[path][i][1] : i \in 1..Len(index[path])} : path \in DOMAIN index}

RecordOf(slug) ==
    LET lines == index[_prefix_name(slug[1])] IN
    lines[CHOOSE i \in 1..Len(lines) : lines[i][1].vers = slug[2]][1]

DepsOf(slug) == RecordOf(slug).deps

\* the package a dependency stands for: its package when present, else its name
RealName(dep) == IF dep.package = <<>> THEN dep.name ELSE dep.package

NotExcluded(name) == \A e \in exclusions : ~Glob(e, name)

HasIndexFile(name) == _prefix_name(name) \in DOMAIN index

\* the version one selection pass picks for a requirement on a package with an
\* index file; the sentinel "latest" stands for the vers of the file's last line
SelectedVers(name, req) ==
    LET lines == index[_prefix_name(name)] IN
    IF req = Latest THEN lines[Len(lines)][1].vers
    ELSE find_matching(req, info_of(name)).vers

\* the (name, requirement) pairs the records of a set of pairs give rise to
RequirementsIn(deps) == {<<RealName(deps[i]), deps[i].req>> : i \in 1..Len(deps)}

RequirementsOf(S) == UNION {RequirementsIn(DepsOf(slug)) : slug \in S}

\* the requirements that lead somewhere: not excluded, with an index file
Resolvable(R) == {r \in R : NotExcluded(r[1]) /\ HasIndexFile(r[1])}

\* C1: when resolve_deps ends with the worklist empty, seen holds the version
\* selected for every dependency (of any kind, optional or not, under its
\* package name when it has one) of every pair of seen, and for every seed,
\* whenever the package is not excluded and has an index file
C1_ClosedUnderExpansion ==
    (Resolved /\ ~overrun) =>
        \A r \in Resolvable(RequirementsOf(seen) \cup seeded) :
            <<r[1], SelectedVers(r[1], r[2])>> \in seen

\* the run seeded only a, drained the worklist and reached bb, which only the
\* renamed build dependency names
C1_Witness ==
    /\ Resolved /\ ~overrun
    /\ seeded # {} /\ \A x \in seeded : x[1] = PkgA
    /\ <<PkgBB, V3(0, 2, 0)>> \in seen

LastComponent(path) ==
    IF Find(path, "/") = 0 THEN path
    ELSE LET i == CHOOSE j \in 1..Len(path) :
                      path[j] = "/" /\ \A k \in (j + 1)..Len(path) : path[k] # "/"
         IN SubSeq(path, i + 1, Len(path))

\* C2: no name matching an exclusion pattern is a key of the worklist, in a
\* pair of seen, a key of the selected catalog or, once make_index has run, a
\* file of the index tree it leaves
C2_ExclusionsHonored ==
    /\ \A name \in DOMAIN crates : NotExcluded(name)
    /\ \A slug \in seen : NotExcluded(slug[1])
    /\ \A name \in DOMAIN selected_crates : NotExcluded(name)
    /\ phase = "indexed" => \A path \in DOMAIN index_dir : NotExcluded(LastComponent(path))

\* make_index has run after a run in which the excluded wxy was a seed and a
\* dependency of a pair of seen
C2_Witness ==
    /\ phase = "indexed"
    /\ <<PkgWXY, Latest>> \in seeded
    /\ \E r \in RequirementsOf(seen) : r[1] = PkgWXY

\* the worklist entries the expansion of a pair can create: one per package
\* its dependencies name, the excluded ones aside
NewEntriesIn(deps) ==
    Cardinality({name \in {RealName(deps[i]) : i \in 1..Len(deps)} : NotExcluded(name)})

NewEntries(slug) == NewEntriesIn(DepsOf(slug))

RECURSIVE SumNewEntries(_)
SumNewEntries(S) ==
    IF S = {} THEN 0
    ELSE NewEntries(CHOOSE x \in S : TRUE) + SumNewEntries(S \ {CHOOSE x \in S : TRUE})

\* the entries of the worklist when resolve_deps is entered
SeedEntries == Cardinality({x[1] : x \in {y \in seeded : NotExcluded(y[1])}})

\* the iterations that popped an entry
Pops == IF overrun THEN n - 1 ELSE n

RECURSIVE Closure(_)
Closure(S) ==
    LET next == S \cup {<<r[1], SelectedVers(r[1], r[2])>> :
                           r \in Resolvable(RequirementsOf(S))}
    IN IF next = S THEN S ELSE Closure(next)

\* C4: whatever entry each iteration removes from the worklist, a run that
\* drains it ends with the same seen: the closure of the seeds' selections
C4_OrderIndependent ==
    (Resolved /\ ~overrun) =>
        seen = Closure({<<r[1], SelectedVers(r[1], r[2])>> : r \in Resolvable(seeded)})

\* a run of two seeds drained the worklist with three pairs in seen
C4_Witness ==
    /\ Resolved /\ ~overrun
    /\ Cardinality(seeded) = 2 /\ Cardinality(seen) = 3

-----------------------------------------------------------------------------
(* The version selector as a state machine: find_matching runs its loop,   *)
(* one iteration a step, over a version map drawn from the sets below.     *)

\* the longest version map the selector is run on
MaxVersions == 3

SelectVersions ==
    {V3(1, 0, 0), V3(1, 1, 0), V3(1, 1, 0) \o <<"+", "rc">>,
     V3(2, 0, 0) \o <<"-", "alpha">>, V3(0, 2, 0)}

SelectRequirements ==
    {<<"^", "1">>, <<"*">>, <<"^", "2">>, <<"~", "1", ".", "0">>,
     <<">", "=", "1", ".", "1">>, <<"=">> \o V3(0, 2, 0)}

\* the dicts of at most MaxVersions versions: no key twice, any order, any flags
VersionMaps ==
    {vs \in UNION {[1..k -> SelectVersions \X BOOLEAN] : k \in 1..MaxVersions} :
        \A i, j \in 1..Len(vs) : i # j => vs[i][1] # vs[j][1]}

SelectInit ==
    /\ phase = "select"
    /\ pattern \in SelectRequirements
    /\ \E vs \in VersionMaps :
          versions = [i \in 1..Len(vs) |->
                         <<vs[i][1], Record(<<"a">>, vs[i][1], vs[i][2], <<>>)>>]
    /\ fm = [i |-> 1, st |-> fm_start, ret |-> <<>>, printed |-> <<>>]
    /\ self_v = SemVer(V3(0, 0, 0)) /\ result = "none"
    /\ IdleResolve /\ IdleCalls

\* one iteration of the loop "for v, item in versions.items()"
FmIterate ==
    /\ phase = "select" /\ fm.i <= Len(versions)
    /\ fm' = [fm EXCEPT !.i = @ + 1, !.st = fm_step(pattern, fm.st, versions[fm.i])]
    /\ UNCHANGED <<phase, self_v, pattern, result, versions, exclusions, index,
                   crates, seeded, seen, n, max_iterations, overrun, expanded,
                   selected_crates, index_dir, name_bound,
                   prefix, top, crates_dir, dl>>

\* the code after the loop, to "return m[1]"
FmReturn ==
    /\ phase = "select" /\ fm.i > Len(versions)
    /\ LET r == fm_return(fm.st) IN
       fm' = [fm EXCEPT !.ret = r.ret, !.printed = r.printed]
    /\ phase' = "selected"
    /\ UNCHANGED <<self_v, pattern, result, versions, exclusions, index, crates,
                   seeded, seen, n, max_iterations, overrun, expanded,
                   selected_crates, index_dir, name_bound,
                   prefix, top, crates_dir, dl>>

SelectNext == FmIterate \/ FmReturn

SpecSelect == SelectInit /\ [][SelectNext]_vars

-----------------------------------------------------------------------------
(* Properties of the version selector. *)

\* the positions of the records that match the requirement, by yanked flag
MatchingAt(yanked) ==
    {i \in 1..Len(versions) :
        match(SemVer(versions[i][1]), pattern) /\ versions[i][2].yanked = yanked}

\* the record is one of those at the positions S and none of them is above it
IsMaximumOf(item, S) ==
    /\ \E i \in S : versions[i][2] = item
    /\ \A i \in S : compare(SemVer(versions[i][1]), SemVer(item.vers), FALSE) <= 0

\* C5: find_matching returns the SemVer-maximum of the non-yanked matching
\* records if there is one, else the SemVer-maximum of the yanked matching
\* records if there is one, else the last record of the map
C5_Selection ==
    phase = "selected" =>
        IF MatchingAt(FALSE) # {} THEN IsMaximumOf(fm.ret, MatchingAt(FALSE))
        ELSE IF MatchingAt(TRUE) # {} THEN IsMaximumOf(fm.ret, MatchingAt(TRUE))
        ELSE fm.ret = versions[Len(versions)][2]

\* ^1 over 1.1.0 yanked and 1.0.0 live returned 1.0.0
C5_Witness ==
    /\ phase = "selected" /\ pattern = <<"^", "1">>
    /\ \E i, j \in 1..Len(versions) :
          /\ versions[i][1] = V3(1, 1, 0) /\ versions[i][2].yanked
          /\ versions[j][1] = V3(1, 0, 0) /\ ~versions[j][2].yanked
    /\ fm.ret.vers = V3(1, 0, 0)

-----------------------------------------------------------------------------
(* Properties of the requirement matcher. *)

\* the numeric components of a version literal
NumsOf(v) == LET a == Split(v, ".") IN [i \in 1..Len(a) |-> int(a[i])]

\* a list of one to three numbers padded with zeros to three
ZeroPadded(nums) == [i \in 1..3 |-> IF i <= Len(nums) THEN nums[i] ELSE 0]

\* (major, minor, patch) order
CoreLess(a, b) ==
    \/ a[1] < b[1]
    \/ a[1] = b[1] /\ a[2] < b[2]
    \/ a[1] = b[1] /\ a[2] = b[2] /\ a[3] < b[3]

CoreOf(v) == SubSeq(v.parts, 1, 3)

HasPrerelease(v) == v.parts[4] # <<>>

\* v >= the release lower (a core without prerelease) in the full SemVer order
AtLeastRelease(v, lower) ==
    CoreLess(lower, CoreOf(v)) \/ (CoreOf(v) = lower /\ ~HasPrerelease(v))

Matched == phase = "match" /\ result # "none"

\* the call was on the one clause op V, V of one to three numeric components
ClauseOf(op) ==
    /\ Matched
    /\ SubSeq(pattern, 1, Len(op)) = op
    /\ SubSeq(pattern, Len(op) + 1, Len(pattern)) \in Partials

LiteralOf(op) == SubSeq(pattern, Len(op) + 1, Len(pattern))

\* the caret upper bound as the claim states it: ^MAJOR.MINOR is ^MAJOR.MINOR.0
CaretUpperClaimed(nums) ==
    LET p == ZeroPadded(nums) IN
    IF p[1] > 0 THEN <<p[1] + 1, 0, 0>>
    ELSE IF Len(nums) = 1 THEN <<1, 0, 0>>
    ELSE IF p[2] > 0 THEN <<0, p[2] + 1, 0>>
    ELSE <<0, 0, p[3] + 1>>

\* the caret upper bound with ^0.MINOR bounded by 0.(MINOR+1).0 for every MINOR
CaretUpperAmended(nums) ==
    LET p == ZeroPadded(nums) IN
    IF p[1] > 0 THEN <<p[1] + 1, 0, 0>>
    ELSE IF Len(nums) = 1 THEN <<1, 0, 0>>
    ELSE IF Len(nums) = 2 \/ p[2] > 0 THEN <<0, p[2] + 1, 0>>
    ELSE <<0, 0, p[3] + 1>>

\* C6 as stated: v matches ^V iff v >= V padded with zeros and the core of v is
\* below the upper bound, where a two-component ^MAJOR.MINOR has the upper bound
\* of ^MAJOR.MINOR.0 (so ^0.0 is bounded by 0.0.1)
C6_CaretAsClaimed ==
    ClauseOf(<<"^">>) =>
        LET nums == NumsOf(LiteralOf(<<"^">>)) IN
        (result = "True") <=>
            (/\ AtLeastRelease(self_v, ZeroPadded(nums))
             /\ CoreLess(CoreOf(self_v), CaretUpperClaimed(nums)))

\* C6 amended: v matches ^V iff v >= V padded with zeros and the core of v is
\* below the upper bound: (MAJOR+1).0.0 when MAJOR > 0, 1.0.0 for ^0,
\* 0.(MINOR+1).0 for every two-component ^0.MINOR (so ^0.0 is bounded by 0.1.0)
\* and for ^0.MINOR.PATCH with MINOR > 0, 0.0.(PATCH+1) for ^0.0.PATCH
C6_Caret ==
    ClauseOf(<<"^">>) =>
        LET nums == NumsOf(LiteralOf(<<"^">>)) IN
        (result = "True") <=>
            (/\ AtLeastRelease(self_v, ZeroPadded(nums))
             /\ CoreLess(CoreOf(self_v), CaretUpperAmended(nums)))

\* 0.0.1 was matched against ^0.0 and matched
C6_Witness ==
    /\ Matched /\ pattern = <<"^", "0", ".", "0">>
    /\ self_v.raw_version = V3(0, 0, 1) /\ result = "True"

TildeUpper(nums) ==
    IF Len(nums) = 1 THEN <<nums[1] + 1, 0, 0>> ELSE <<nums[1], nums[2] + 1, 0>>

\* C7: v matches ~V iff v >= V padded with zeros and the core of v is below
\* MAJOR.(MINOR+1).0 (for ~MAJOR.MINOR.PATCH and ~MAJOR.MINOR) or (MAJOR+1).0.0
\* (for ~MAJOR)
C7_Tilde ==
    ClauseOf(<<"~">>) =>
        LET nums == NumsOf(LiteralOf(<<"~">>)) IN
        (result = "True") <=>
            (/\ AtLeastRelease(self_v, ZeroPadded(nums))
             /\ CoreLess(CoreOf(self_v), TildeUpper(nums)))

\* 1.2.2 was matched against ~1.2 and matched
C7_Witness ==
    /\ Matched /\ pattern = <<"~", "1", ".", "2">>
    /\ self_v.raw_version = V3(1, 2, 2) /\ result = "True"

\* the core of the bound a pattern ">=V" or "<V" of three components names
BoundCore(p) ==
    LET v == IF p[2] = "=" THEN SubSeq(p, 3, Len(p)) ELSE Tail(p) IN
    CoreOf(SemVer(v))

\* the two patterns ^ or ~ synthesizes for the clause of the call
Synthesized ==
    IF pattern[1] = "^" THEN _caret_requirement(pattern) ELSE _tilde_requirement(pattern)

\* C8: for a caret or tilde clause, a version whose core is the synthesized
\* upper bound never matches, whatever its prerelease, and a prerelease of the
\* synthesized lower bound does not match either
C8_BoundsAsymmetric ==
    (ClauseOf(<<"^">>) \/ ClauseOf(<<"~">>)) =>
        /\ CoreOf(self_v) = BoundCore(Synthesized[2]) => result = "False"
        /\ (CoreOf(self_v) = BoundCore(Synthesized[1]) /\ HasPrerelease(self_v))
              => result = "False"

\* 2.0.0-alpha was matched against ^1.0.0 and did not match
C8_Witness ==
    /\ Matched /\ pattern = <<"^">> \o V3(1, 0, 0)
    /\ self_v.raw_version = V3(2, 0, 0) \o <<"-", "alpha">> /\ result = "False"

\* C9: =V with V of three components matches v iff V is the raw string of v;
\* =V with V of one or two components matches v iff the components of V are
\* the leading components of v
C9_ExactAsClaimed ==
    (Matched /\ pattern[1] = "=") =>
        LET lit == Tail(pattern)
            b   == Split(lit, ".")
        IN IF Len(b) = 3
           THEN (result = "True") <=> (lit = self_v.raw_version)
           ELSE (result = "True") <=>
                    (NumsOf(lit) = SubSeq(self_v.parts, 1, Len(b)))

\* C10 as stated: a version whose core is that of V never matches a <V clause,
\* also one written directly in the requirement
C10_LessAsClaimed ==
    (ClauseOf(<<"<">>) /\ Len(LiteralOf(<<"<">>)) = 5) =>
        (CoreOf(self_v) = NumsOf(LiteralOf(<<"<">>)) => result = "False")

\* C10 amended: a <V clause written directly in a requirement (V of three
\* numeric components) is evaluated with the prerelease-aware comparison: v
\* matches iff its core is below V, or its core is V and v has a prerelease
C10_LessDirect ==
    (ClauseOf(<<"<">>) /\ Len(LiteralOf(<<"<">>)) = 5) =>
        LET nums == NumsOf(LiteralOf(<<"<">>)) IN
        (result = "True") <=>
            (\/ CoreLess(CoreOf(self_v), nums)
             \/ CoreOf(self_v) = nums /\ HasPrerelease(self_v))

\* 2.0.0-alpha was matched against <2.0.0 and matched
C10_Witness ==
    /\ Matched /\ pattern = <<"<">> \o V3(2, 0, 0)
    /\ self_v.raw_version = V3(2, 0, 0) \o <<"-", "alpha">> /\ result = "True"

-----------------------------------------------------------------------------
(* SemVer.compare as a state machine: compare() is called once, not        *)
(* strict, on a version and a version string drawn from the set below.     *)

\* prereleases: numeric and alphanumeric identifiers, one a prefix of another
Prereleases ==
    {<<>>, <<"1">>, <<ToString(MaxNum)>>, <<"alpha">>, <<"beta">>,
     <<"alpha", ".", "1">>, <<"alpha", ".", ToString(MaxNum)>>,
     <<"alpha", ".", "beta">>, <<"1", ".", "alpha">>}

CompareVersions ==
    {c \o (IF p = <<>> THEN <<>> ELSE <<"-">> \o p) \o b :
        c \in {V3(1, 0, 0), V3(1, MaxNum, 0)}, p \in Prereleases,
        b \in {<<>>, <<"+", "rc">>}}

CompareInit ==
    /\ phase = "compare"
    /\ self_v \in {SemVer(v) : v \in CompareVersions}
    /\ pattern \in CompareVersions
    /\ result = "none"
    /\ IdleSelect /\ IdleResolve /\ IdleCalls

\* the call self_v.compare(pattern): other = SemVer(other), then the comparison
Compare ==
    /\ phase = "compare"
    /\ phase' = "compared"
    /\ result' = compare(self_v, SemVer(pattern), FALSE)
    /\ UNCHANGED <<self_v, pattern, versions, fm, exclusions, index, crates,
                   seeded, seen, n, max_iterations, overrun, expanded,
                   selected_crates, index_dir, name_bound,
                   prefix, top, crates_dir, dl>>

CompareNext == Compare

SpecCompare == CompareInit /\ [][CompareNext]_vars

-----------------------------------------------------------------------------
(* Properties of SemVer.compare. *)

\* the identifiers of a prerelease
IdentsOf(pre) == [i \in 1..((Len(pre) + 1) \div 2) |-> pre[2 * i - 1]]

IsNumericId(x) == x \in {ToString(k) : k \in 0..(MaxNum + 1)}

NumberOf(x) == CHOOSE k \in 0..(MaxNum + 1) : ToString(k) = x

\* ASCII order of the alphanumeric identifiers in use
AsciiLess(x, y) ==
    <<x, y>> \in {<<"alpha", "beta">>, <<"alpha", "rc">>, <<"beta", "rc">>}

\* the order of two identifiers: numbers by value, a number before a word,
\* words in ASCII order
IdentLess(x, y) ==
    IF IsNumericId(x) /\ IsNumericId(y) THEN NumberOf(x) < NumberOf(y)
    ELSE IF IsNumericId(x) THEN TRUE
    ELSE IF IsNumericId(y) THEN FALSE
    ELSE AsciiLess(x, y)

\* the order of two prereleases: the first differing identifier decides, and
\* a proper prefix is the lesser
PrereleaseLess(p, q) ==
    LET a == IdentsOf(p)
        b == IdentsOf(q)
    IN \/ \E i \in 1..Min(Len(a), Len(b)) :
             /\ \A j \in 1..(i - 1) : a[j] = b[j]
             /\ IdentLess(a[i], b[i])
       \/ Len(a) < Len(b) /\ \A j \in 1..Len(a) : a[j] = b[j]

\* the precedence of SemVer: the core, then a prerelease before none, then
\* the prereleases
VersionLess(v, w) ==
    \/ CoreLess(v.parts, w.parts)
    \/ /\ SubSeq(v.parts, 1, 3) = SubSeq(w.parts, 1, 3)
       /\ \/ v.parts[4] # <<>> /\ w.parts[4] = <<>>
          \/ v.parts[4] # <<>> /\ w.parts[4] # <<>> /\ PrereleaseLess(v.parts[4], w.parts[4])

SameButBuild(v, w) == SubSeq(v.parts, 1, 4) = SubSeq(w.parts, 1, 4)

Others == {SemVer(v) : v \in CompareVersions}

\* C11: compare, not strict, is a total order that follows the prerelease
\* rules: it is -1, 0 or 1 as the precedence of SemVer says, with 0 exactly
\* for equal (major, minor, patch, prerelease); swapping the operands negates
\* it; it is transitive; the build of either operand never changes it
C11_TotalOrder ==
    phase = "compared" =>
        LET b == SemVer(pattern) IN
        /\ result = (IF VersionLess(self_v, b) THEN -1
                     ELSE IF VersionLess(b, self_v) THEN 1 ELSE 0)
        /\ result = 0 <=> SameButBuild(self_v, b)
        /\ result = 0 - compare(b, self_v, FALSE)
        /\ \A c \in Others :
              /\ (result <= 0 /\ compare(b, c, FALSE) <= 0) => compare(self_v, c, FALSE) <= 0
              /\ SameButBuild(b, c) => compare(self_v, c, FALSE) = result
              /\ SameButBuild(self_v, c) => compare(c, b, FALSE) = result

\* 1.0.0-alpha was compared with 1.0.0-alpha.1+rc and came out less
C11_Witness ==
    /\ phase = "compared"
    /\ self_v.raw_version = V3(1, 0, 0) \o <<"-", "alpha">>
    /\ pattern = V3(1, 0, 0) \o <<"-", "alpha", ".", "1", "+", "rc">>
    /\ result = -1

-----------------------------------------------------------------------------
(* TopCrates._prefix_name as a state machine: it is called once on a       *)
(* package name drawn from the set below, as resolve_deps and make_index   *)
(* call it on a worklist key and on a key of the selected catalog.         *)

\* the longest package name
MaxNameLen == 4

\* the characters of the package names: lower-case and upper-case letters
NameChars == {"a", "b", "A"}

PackageNames == UNION {[1..k -> NameChars] : k \in 1..MaxNameLen}

PathInit ==
    /\ phase = "prefix"
    /\ prefix \in {[name |-> name, ret |-> <<>>] : name \in PackageNames}
    /\ IdleMatch /\ IdleSelect /\ IdleResolve /\ IdleTop /\ IdleFetch

\* the call TopCrates._prefix_name(name)
PrefixName ==
    /\ phase = "prefix" /\ prefix.ret = <<>>
    /\ prefix' = [prefix EXCEPT !.ret = _prefix_name(prefix.name)]
    /\ UNCHANGED <<phase, self_v, pattern, result, versions, fm, exclusions, index,
                   crates, seeded, seen, n, max_iterations, overrun, expanded,
                   selected_crates, index_dir, name_bound, top, crates_dir, dl>>

PathNext == PrefixName

SpecPath == PathInit /\ [][PathNext]_vars

-----------------------------------------------------------------------------
(* Properties of the index path. *)

\* str.lower() of a name over NameChars
LowerCased(name) == [i \in 1..Len(name) |-> IF name[i] = "A" THEN "a" ELSE name[i]]

\* the path layout of a name N of length L: 1/N, 2/N, 3/N[0]/N, N[0:2]/N[2:4]/N
Layout(N) ==
    IF Len(N) = 1 THEN <<"1", "/">> \o N
    ELSE IF Len(N) = 2 THEN <<"2", "/">> \o N
    ELSE IF Len(N) = 3 THEN <<"3", "/", N[1], "/">> \o N
    ELSE <<N[1], N[2], "/">> \o SubSeq(N, 3, Min(4, Len(N))) \o <<"/">> \o N

\* C12: the index path of a package name is the layout of the lower-cased
\* name, so names that differ only in letter case have the same path
C12_LowerCasedPath ==
    prefix.ret # <<>> => prefix.ret = Layout(LowerCased(prefix.name))

-----------------------------------------------------------------------------
(* Properties of the index materializer. *)

\* the positions of the lines of a source file whose vers is wanted
KeptLines(src, wanted) == {i \in 1..Len(src) : src[i][1].vers \in wanted}

\* the k-th position of a set of positions
NthOf(S, k) == CHOOSE i \in S : Cardinality({j \in S : j <= i}) = k

\* C13: after make_index, the file of every package of the selected catalog is
\* the lines of the package's source index file whose vers is selected, in the
\* order of the source and as they are there, then one empty line; every
\* selected version has its line and no other version has one
C13_IndexFidelity ==
    phase = "indexed" =>
        \A name \in DOMAIN selected_crates :
            LET src  == index[_prefix_name(name)]
                out  == index_dir[_prefix_name(name)]
                kept == KeptLines(src, selected_crates[name])
            IN /\ Len(out) = Cardinality(kept) + 1
               /\ out[Len(out)] = <<>>
               /\ \A k \in 1..Cardinality(kept) : out[k] = src[NthOf(kept, k)]
               /\ \A v \in selected_crates[name] :
                     \E k \in 1..(Len(out) - 1) : out[k][1].vers = v

\* make_index wrote the file of a with the line of 1.0.0 and without that of
\* 1.1.0, and the file of bb
C13_Witness ==
    /\ phase = "indexed"
    /\ DOMAIN selected_crates = {PkgA, PkgBB}
    /\ selected_crates[PkgA] = {V3(1, 0, 0)}
    /\ Len(index_dir[_prefix_name(PkgA)]) = 2

-----------------------------------------------------------------------------
(* download_crates as a state machine: the scan of crates_dir and the      *)
(* purge in one step, then the tasks of pool.map a step at a time (the     *)
(* request and the opening of the file, the end of the write, a failure),  *)
(* the end of pool.map, and the death of the process.                      *)

\* the most archives of a selected catalog
MaxArchives == 2
\* the most runs of download_crates on the same directory
MaxRuns == 2
\* Pool(16, ...)
PoolSize == 16

\* f"{name}-{version}.crate"
crate_file(name, version) == name \o <<"-">> \o version \o <<".crate">>

\* the tasks of a map of len items go to the workers in chunks of this size
\* (Pool.map: divmod(len, 4 * processes), one more when there is a remainder)
chunksize(len) ==
    (len \div (PoolSize * 4)) + (IF len % (PoolSize * 4) # 0 THEN 1 ELSE 0)

\* the positions after i that are in the chunk of i
rest_of_chunk(i, len) ==
    {j \in (i + 1)..len : (j - 1) \div chunksize(len) = (i - 1) \div chunksize(len)}

\* a set as a list, in the order the loops find its elements
RECURSIVE as_list(_)
as_list(S) ==
    IF S = {} THEN <<>>
    ELSE LET x == CHOOSE y \in S : TRUE IN <<x>> \o as_list(S \ {x})

\* the (name, version) pairs of the selected catalog
wanted_pairs(selected) ==
    UNION {{<<name, v>> : v \in selected[name]} : name \in DOMAIN selected}

\* the list downloads with no file taken for there
downloads_ignoring_existing(selected, existing) == as_list(wanted_pairs(selected))

\* the list downloads: the pairs of the catalog whose file is not in existing
downloads_of(selected, existing) ==
    as_list({p \in wanted_pairs(selected) : crate_file(p[1], p[2]) \notin existing})

\* existing after a loop that discards no file
unused_of_nothing_discarded(selected, existing) == existing

\* existing after the loop: the files of no pair of the catalog
unused_of(selected, existing) ==
    existing \ {crate_file(p[1], p[2]) : p \in wanted_pairs(selected)}

ArchivePool == {<<PkgA, V3(1, 0, 0)>>, <<PkgA, V3(1, 1, 0)>>, <<PkgBB, V3(0, 2, 0)>>}

\* an archive of no selected version, left by an earlier catalog
UnusedFile == crate_file(<<"o", "l", "d">>, V3(0, 1, 0))

\* the content of a file: a whole archive body, the beginning of a body, or
\* the whole body of a failure response
Contents == {"body", "part", "failure_body"}

\* the tasks that are in write_bytes
Writing == {"writing", "writing_failure"}

\* the tasks a worker is running: in "with counter.get_lock()", between it
\* and session.get, or in write_bytes
Running == {"locked", "read", "counted"} \cup Writing

\* counter.get_lock() is taken without waiting for the task that holds it
acquire_unlocked(lock) == TRUE

\* "with counter.get_lock()" goes on into its block: no task holds the lock
acquire(lock) == lock = 0

FetchInit ==
    /\ phase = "fetch"
    /\ \E S \in SUBSET ArchivePool :
          /\ S # {} /\ Cardinality(S) <= MaxArchives
          /\ selected_crates = selected_of(S)
    /\ \E F \in SUBSET {crate_file(PkgA, V3(1, 0, 0)), UnusedFile} :
          crates_dir = [f \in F |-> "body"]
    /\ \E purge \in BOOLEAN :
          dl = [stage |-> "idle", run |-> 0, purge |-> purge, downloads |-> <<>>,
                task |-> <<>>, before |-> <<>>, prev |-> "none", printed |-> <<>>,
                num |-> 0, lock |-> 0, value |-> <<>>]
    /\ self_v = SemVer(V3(0, 0, 0)) /\ pattern = <<"*">> /\ result = "none"
    /\ IdleSelect /\ IdlePrefix /\ IdleTop
    /\ exclusions = {} /\ index = <<>> /\ crates = <<>> /\ seeded = {} /\ seen = {}
    /\ n = 0 /\ max_iterations = 0 /\ overrun = FALSE /\ expanded = <<>>
    /\ index_dir = <<>> /\ name_bound = FALSE

\* download_crates(purge=...) from its start to the call of pool.map, or to
\* its return when there is nothing to download
DownloadCrates ==
    /\ phase = "fetch"
    /\ dl.stage \in {"idle", "returned", "raised", "killed"} /\ dl.run < MaxRuns
    /\ \E existing \in {DOMAIN crates_dir} :
       \E downloads \in {downloads_of(selected_crates, existing)} :
       \E unused \in {unused_of(selected_crates, existing)} :
          /\ crates_dir' = IF dl.purge
                           THEN [f \in DOMAIN crates_dir \ unused |-> crates_dir[f]]
                           ELSE crates_dir
          /\ dl' = [dl EXCEPT
                      !.run = @ + 1, !.prev = dl.stage, !.before = crates_dir,
                      !.downloads = downloads,
                      !.task = [i \in 1..Len(downloads) |-> "queued"],
                      !.num = 0, !.lock = 0,
                      !.value = [i \in 1..Len(downloads) |-> 0],
                      !.stage = IF downloads = <<>> THEN "returned" ELSE "pool",
                      !.printed = <<"unused crates">> \o
                                  (IF downloads = <<>>
                                   THEN <<"No new crates to download">> ELSE <<>>)]
    /\ UNCHANGED <<phase, self_v, pattern, result, versions, fm, exclusions, index,
                   crates, seeded, seen, n, max_iterations, overrun, expanded,
                   selected_crates, index_dir, name_bound, prefix, top>>

\* a worker may take task i: the pool runs it, its chunk has got to it, and
\* a worker is free
Runnable(i) ==
    /\ phase = "fetch" /\ dl.stage = "pool"
    /\ i \in DOMAIN dl.task /\ dl.task[i] = "queued"
    /\ \A j \in 1..(i - 1) : i \in rest_of_chunk(j, Len(dl.task)) => dl.task[j] = "done"
    /\ Cardinality({j \in DOMAIN dl.task : dl.task[j] \in Running}) < PoolSize

file_of(i) == crate_file(dl.downloads[i][1], dl.downloads[i][2])

\* _download_crate: a worker takes task i and enters "with counter.get_lock()"
TaskLocks(i) ==
    /\ Runnable(i) /\ acquire(dl.lock)
    /\ dl' = [dl EXCEPT !.task[i] = "locked", !.lock = i]
    /\ UNCHANGED <<phase, self_v, pattern, result, versions, fm, exclusions, index,
                   crates, seeded, seen, n, max_iterations, overrun, expanded,
                   selected_crates, index_dir, name_bound, prefix, top, crates_dir>>

\* counter.value += 1, the read of counter.value
TaskReads(i) ==
    /\ phase = "fetch" /\ dl.stage = "pool"
    /\ i \in DOMAIN dl.task /\ dl.task[i] = "locked"
    /\ dl' = [dl EXCEPT !.task[i] = "read", !.value[i] = dl.num]
    /\ UNCHANGED <<phase, self_v, pattern, result, versions, fm, exclusions, index,
                   crates, seeded, seen, n, max_iterations, overrun, expanded,
                   selected_crates, index_dir, name_bound, prefix, top, crates_dir>>

\* counter.value += 1, the write of counter.value, and the end of the with
\* block, which releases the lock
TaskCounts(i) ==
    /\ phase = "fetch" /\ dl.stage = "pool"
    /\ i \in DOMAIN dl.task /\ dl.task[i] = "read"
    /\ dl' = [dl EXCEPT !.task[i] = "counted", !.num = dl.value[i] + 1,
                        !.value[i] = 0, !.lock = 0]
    /\ UNCHANGED <<phase, self_v, pattern, result, versions, fm, exclusions, index,
                   crates, seeded, seen, n, max_iterations, overrun, expanded,
                   selected_crates, index_dir, name_bound, prefix, top, crates_dir>>

\* task i is at "r = session.get(url)"
AtGet(i) ==
    /\ phase = "fetch" /\ dl.stage = "pool"
    /\ i \in DOMAIN dl.task /\ dl.task[i] = "counted"

\* the tasks after task i raised: the rest of its chunk is never run
after_raise(i) ==
    [j \in DOMAIN dl.task |->
        IF j = i THEN "failed"
        ELSE IF j \in rest_of_chunk(i, Len(dl.task)) THEN "skipped"
        ELSE dl.task[j]]

\* _download_crate: session.get(url) returns a response of status 200 and
\* write_bytes opens dest_file
TaskGet(i) ==
    /\ AtGet(i)
    /\ dl' = [dl EXCEPT !.task[i] = "writing"]
    /\ crates_dir' = [f \in DOMAIN crates_dir \cup {file_of(i)} |->
                         IF f = file_of(i) THEN "part" ELSE crates_dir[f]]
    /\ UNCHANGED <<phase, self_v, pattern, result, versions, fm, exclusions, index,
                   crates, seeded, seen, n, max_iterations, overrun, expanded,
                   selected_crates, index_dir, name_bound, prefix, top>>

\* _download_crate: session.get(url) returns a failure response (a status of
\* 403, 404, 5xx: the code does not look at it) and write_bytes opens dest_file
TaskGetFailure(i) ==
    /\ AtGet(i)
    /\ dl' = [dl EXCEPT !.task[i] = "writing_failure"]
    /\ crates_dir' = [f \in DOMAIN crates_dir \cup {file_of(i)} |->
                         IF f = file_of(i) THEN "part" ELSE crates_dir[f]]
    /\ UNCHANGED <<phase, self_v, pattern, result, versions, fm, exclusions, index,
                   crates, seeded, seen, n, max_iterations, overrun, expanded,
                   selected_crates, index_dir, name_bound, prefix, top>>

\* _download_crate: session.get(url) raises
TaskGetRaises(i) ==
    /\ AtGet(i)
    /\ dl' = [dl EXCEPT !.task = after_raise(i)]
    /\ UNCHANGED <<phase, self_v, pattern, result, versions, fm, exclusions, index,
                   crates, seeded, seen, n, max_iterations, overrun, expanded,
                   selected_crates, index_dir, name_bound, prefix, top, crates_dir>>

\* _download_crate: write_bytes has written the whole body, the task returns
TaskWritten(i) ==
    /\ phase = "fetch" /\ dl.stage = "pool"
    /\ i \in DOMAIN dl.task /\ dl.task[i] \in Writing
    /\ dl' = [dl EXCEPT !.task[i] = "done"]
    /\ crates_dir' = [crates_dir EXCEPT ![file_of(i)] =
                         IF dl.task[i] = "writing" THEN "body" ELSE "failure_body"]
    /\ UNCHANGED <<phase, self_v, pattern, result, versions, fm, exclusions, index,
                   crates, seeded, seen, n, max_iterations, overrun, expanded,
                   selected_crates, index_dir, name_bound, prefix, top>>

\* _download_crate: write_bytes raises after writing a part of the body
TaskWriteRaises(i) ==
    /\ phase = "fetch" /\ dl.stage = "pool"
    /\ i \in DOMAIN dl.task /\ dl.task[i] \in Writing
    /\ dl' = [dl EXCEPT !.task = after_raise(i)]
    /\ UNCHANGED <<phase, self_v, pattern, result, versions, fm, exclusions, index,
                   crates, seeded, seen, n, max_iterations, overrun, expanded,
                   selected_crates, index_dir, name_bound, prefix, top, crates_dir>>

\* pool.map ends when every chunk has: it returns, and download_crates goes on
\* to print and return, or it raises the exception of a task, which
\* download_crates does not catch
PoolMapEnds ==
    /\ phase = "fetch" /\ dl.stage = "pool"
    /\ \A i \in DOMAIN dl.task : dl.task[i] \in {"done", "failed", "skipped"}
    /\ dl' = IF \E i \in DOMAIN dl.task : dl.task[i] = "failed"
             THEN [dl EXCEPT !.stage = "raised"]
             ELSE [dl EXCEPT !.stage = "returned",
                             !.printed = @ \o <<"Downloaded new crates">>]
    /\ UNCHANGED <<phase, self_v, pattern, result, versions, fm, exclusions, index,
                   crates, seeded, seen, n, max_iterations, overrun, expanded,
                   selected_crates, index_dir, name_bound, prefix, top, crates_dir>>

\* the program and its workers are killed while the pool runs
Killed ==
    /\ phase = "fetch" /\ dl.stage = "pool"
    /\ dl' = [dl EXCEPT !.stage = "killed"]
    /\ UNCHANGED <<phase, self_v, pattern, result, versions, fm, exclusions, index,
                   crates, seeded, seen, n, max_iterations, overrun, expanded,
                   selected_crates, index_dir, name_bound, prefix, top, crates_dir>>

FetchNext ==
    \/ DownloadCrates
    \/ \E i \in 1..(MaxArchives + 1) :
          \/ TaskLocks(i) \/ TaskReads(i) \/ TaskCounts(i)
          \/ TaskGet(i) \/ TaskGetFailure(i) \/ TaskGetRaises(i)
          \/ TaskWritten(i) \/ TaskWriteRaises(i)
    \/ PoolMapEnds
    \/ Killed

SpecFetch == FetchInit /\ [][FetchNext]_vars

-----------------------------------------------------------------------------
(* Properties of the archive fetcher. *)

\* C14: a run of download_crates that follows one that returned, on the same
\* selected catalog and directory, finds nothing to download, starts no task
\* and returns with every file of the directory as the first run left it
C14_Idempotent ==
    (dl.run >= 2 /\ dl.prev = "returned") =>
        /\ dl.downloads = <<>> /\ dl.task = <<>>
        /\ dl.stage = "returned"
        /\ crates_dir = dl.before

\* the second run returned after a first run that downloaded the archive of bb
C14_Witness ==
    /\ dl.run = 2 /\ dl.prev = "returned" /\ dl.stage = "returned"
    /\ crate_file(PkgBB, V3(0, 2, 0)) \in DOMAIN crates_dir

\* C15: every file <name>-<version>.crate of the archives directory holds a
\* whole archive body, in every state of the fetcher
C15_ArchivesComplete ==
    \A f \in DOMAIN crates_dir : crates_dir[f] = "body"

\* C16: when a task of the pool raised, every other task was still run, the
\* failure was printed and download_crates returned
C16_FailureTolerated ==
    (dl.stage \in {"returned", "raised"}
     /\ \E i \in DOMAIN dl.task : dl.task[i] = "failed") =>
        /\ dl.stage = "returned"
        /\ \E k \in 1..Len(dl.printed) : dl.printed[k] = "failed"
        /\ \A i \in DOMAIN dl.task : dl.task[i] # "skipped"

-----------------------------------------------------------------------------
(* top_crates' _get_top(count) as a state machine, one iteration of its    *)
(* loop a step, against a catalog endpoint that returns, for page and      *)
(* per_page, the crates of the ranks (page-1)*per_page+1 .. page*per_page. *)

\* the most pages of per_page crates a pull asks for
MaxPages == 2
\* per_page = 100
per_page == 100

\* the crates of the catalog, by rank of downloads; the configuration
\* excludes the name of rank 3; an even rank has no stable version
CatalogSize == (MaxPages + 2) * per_page

crate_at(rank) ==
    [name |-> IF rank = 3 THEN PkgWXY ELSE <<"c", ToString(rank)>>,
     max_stable_version |-> IF rank % 2 = 0 THEN <<>> ELSE V3(1, 0, 0),
     max_version |-> IF rank % 2 = 0 THEN V3(1, 1, 0) \o <<"-", "alpha">> ELSE V3(1, 0, 0)]

\* requests.get(url).json()["crates"] for the url of page and per_page
endpoint(page, size) ==
    [i \in 1..(Min(page * size, CatalogSize) - Min((page - 1) * size, CatalogSize)) |->
        crate_at((page - 1) * size + i)]

\* what the loop "for crate in data['crates']" hands to add: the name with
\* max_stable_version when there is one, and the name with max_version
handed(data) ==
    {<<data[i].name, data[i].max_version>> : i \in 1..Len(data)}
    \cup {<<data[i].name, data[i].max_stable_version>> :
             i \in {j \in 1..Len(data) : data[j].max_stable_version # <<>>}}

\* the worklist after add has been called on every pair of calls: each name
\* that is not excluded has the versions handed with it joined to its set
add_all(cr, calls) ==
    [x \in DOMAIN cr \cup {p[1] : p \in {q \in calls : ~Excluded(q[1])}} |->
        (IF x \in DOMAIN cr THEN cr[x] ELSE {}) \cup {p[2] : p \in {q \in calls : q[1] = x}}]

\* _get_top(N) is entered: per_page = 100, page = 1
TopInit ==
    /\ phase = "top"
    /\ \E N \in 0..(MaxPages * per_page + per_page \div 2) :
          top = [N |-> N, count |-> N, page |-> 1, urls |-> <<>>, stage |-> "loop"]
    /\ exclusions = ConfExclusions
    /\ crates = <<>> /\ seeded = {}
    /\ index = <<>> /\ seen = {} /\ n = 0 /\ max_iterations = 0 /\ overrun = FALSE
    /\ expanded = <<>> /\ selected_crates = <<>> /\ index_dir = <<>>
    /\ name_bound = FALSE
    /\ IdleMatch /\ IdleSelect /\ IdlePrefix /\ IdleFetch

\* one iteration of "while count > 0"
GetTopPage ==
    /\ phase = "top" /\ top.stage = "loop" /\ top.count > 0
    /\ \E data \in {endpoint(top.page, Min(top.count, per_page))} :
          /\ crates' = add_all(crates, handed(data))
          /\ seeded' = seeded \cup handed(data)
    /\ top' = [top EXCEPT !.urls = Append(@, <<top.page, Min(top.count, per_page)>>),
                          !.page = @ + 1,
                          !.count = @ - per_page]
    /\ UNCHANGED <<phase, self_v, pattern, result, versions, fm, exclusions, index,
                   seen, n, max_iterations, overrun, expanded, selected_crates,
                   index_dir, name_bound, prefix, crates_dir, dl>>

\* the loop ends and _get_top returns
GetTopReturns ==
    /\ phase = "top" /\ top.stage = "loop" /\ top.count <= 0
    /\ top' = [top EXCEPT !.stage = "returned"]
    /\ UNCHANGED <<phase, self_v, pattern, result, versions, fm, exclusions, index,
                   crates, seeded, seen, n, max_iterations, overrun, expanded,
                   selected_crates, index_dir, name_bound, prefix, crates_dir, dl>>

TopNext == GetTopPage \/ GetTopReturns

SpecTop == TopInit /\ [][TopNext]_vars

-----------------------------------------------------------------------------
(* Properties of the top-N pull. *)

\* C17: _get_top(N) asks for at most 100 crates a page and leaves in the
\* worklist exactly the N crates of the highest ranks, the excluded ones aside
C17_TopN ==
    top.stage = "returned" =>
        /\ \A k \in 1..Len(top.urls) : top.urls[k][2] <= 100
        /\ DOMAIN crates =
              {name \in {crate_at(rank).name : rank \in 1..top.N} : NotExcluded(name)}

-----------------------------------------------------------------------------
(* Properties of the resolver's memoization and of its iteration cap. *)

\* the packages that have a version in seen
SeenNames == {slug[1] : slug \in seen}

\* C18: a dependency on a package that has a version in seen is not put on
\* the worklist: while the loop runs, no key of the worklist is a package of
\* seen (a package gets into seen only when its entry is taken off the
\* worklist, and would not be put back)
C18_SeenNotEnqueued ==
    phase = "resolve" => DOMAIN crates \cap SeenNames = {}

\* C19: no step of the resolver removes a pair from seen, and after every
\* step each pair of seen has had its dependencies expanded exactly once,
\* however many requirements have selected it since
C19_GrowsAndExpandsOnce ==
    [][/\ seen \subseteq seen'
       /\ DOMAIN expanded' = seen'
       /\ \A slug \in seen' : expanded'[slug] = 1]_vars

\* bb, which depends on itself only, was popped twice and selected twice at
\* 0.2.0, and expanded once
C19_Witness ==
    /\ Resolved /\ ~overrun /\ n = 2
    /\ seeded = {<<PkgBB, V3(0, 2, 0)>>}
    /\ index[_prefix_name(PkgBB)][1][1].deps = <<DepPool[2]>>
    /\ seen = {<<PkgBB, V3(0, 2, 0)>>}
    /\ expanded[<<PkgBB, V3(0, 2, 0)>>] = 1


\* C20: resolve_deps(max_iterations = k) pops at most k entries of the
\* worklist; when "too many iterations" was printed, k entries were popped,
\* the worklist still holds entries, the call returned instead of raising and
\* selected_crates maps every name of seen to exactly the versions seen pairs
\* it with; a call that returned without the diagnostic left no entry
C20_CapIsNonFatal ==
    /\ Pops <= max_iterations
    /\ overrun =>
          /\ Resolved
          /\ Pops = max_iterations
          /\ DOMAIN crates # {}
          /\ DOMAIN selected_crates = SeenNames
          /\ \A name \in SeenNames :
                selected_crates[name] = {slug[2] : slug \in {x \in seen : x[1] = name}}
    /\ (Resolved /\ ~overrun) => DOMAIN crates = {}

\* resolve_deps(1) stopped at the cap after expanding two versions of one
\* package, with the worklist not drained
C20_Witness ==
    /\ Resolved /\ overrun /\ max_iterations = DebugMaxIterations
    /\ DOMAIN crates # {}
    /\ \E name \in SeenNames : Cardinality(selected_crates[name]) = 2

-----------------------------------------------------------------------------
(* Properties of the selector's fallbacks. *)

\* C21: when find_matching returns a degraded choice, a yanked record because
\* no live version matches or the last record because no version matches, it
\* has printed one diagnostic for that selection; it prints none otherwise
C21_FallbackDiagnosed ==
    phase = "selected" =>
        Len(fm.printed) = (IF MatchingAt(FALSE) = {} THEN 1 ELSE 0)

-----------------------------------------------------------------------------
(* Properties of the fetcher's schedule, of its workers and of its counter. *)

\* the files <name>-<version>.crate of the selected catalog
WantedFiles == {crate_file(p[1], p[2]) : p \in wanted_pairs(selected_crates)}

\* the .crate files the current run of download_crates found
ExistingFiles == DOMAIN dl.before

\* the files the current run has scheduled
ScheduledFiles ==
    {crate_file(dl.downloads[i][1], dl.downloads[i][2]) : i \in 1..Len(dl.downloads)}

\* C22: a run of download_crates schedules exactly the wanted files that
\* did not exist, each once; the files it found and are gone are exactly the
\* existing files that are not wanted when purge is set, and none when it is
\* not; a wanted file that existed is not scheduled and is left as it was
C22_ScheduleAndPurge ==
    dl.run >= 1 =>
        /\ ScheduledFiles = WantedFiles \ ExistingFiles
        /\ Cardinality(ScheduledFiles) = Len(dl.downloads)
        /\ ExistingFiles \ DOMAIN crates_dir =
              (IF dl.purge THEN ExistingFiles \ WantedFiles ELSE {})
        /\ \A f \in WantedFiles \cap ExistingFiles :
              /\ f \notin ScheduledFiles
              /\ f \in DOMAIN crates_dir /\ crates_dir[f] = dl.before[f]

\* a run with purge set found the archive of a 1.0.0 and an unused file: it
\* deleted the unused file, kept the archive and scheduled the other one
C22_Witness ==
    /\ dl.run = 1 /\ dl.purge /\ dl.stage = "pool"
    /\ ExistingFiles = {crate_file(PkgA, V3(1, 0, 0)), UnusedFile}
    /\ DOMAIN crates_dir = {crate_file(PkgA, V3(1, 0, 0))}
    /\ ScheduledFiles = {crate_file(PkgBB, V3(0, 2, 0))}

\* a run without purge found an unused file and left it
C22_WitnessKept ==
    /\ dl.run = 1 /\ ~dl.purge /\ dl.stage = "returned"
    /\ UnusedFile \in ExistingFiles /\ UnusedFile \in DOMAIN crates_dir

\* C23: a worker writes a file only for a successful response: no file of
\* the archives directory holds the body of a failure response
C23_NoFileForFailure ==
    \A f \in DOMAIN crates_dir : crates_dir[f] # "failure_body"

\* the tasks that have left "with counter.get_lock()"
Counted == {i \in DOMAIN dl.task : dl.task[i] \in {"counted", "done", "failed"} \cup Writing}

\* C24: however the steps of the workers interleave, no two tasks of a run
\* write the same file, at most one task is inside "with counter.get_lock()",
\* the counter is the number of tasks that have incremented it, never more
\* than the number of downloads, and is that number once every task has
\* ended
C24_CounterExact ==
    dl.run >= 1 =>
        /\ \A i, j \in DOMAIN dl.task : i # j => file_of(i) # file_of(j)
        /\ Cardinality({i \in DOMAIN dl.task : dl.task[i] \in {"locked", "read"}}) <= 1
        /\ dl.num = Cardinality(Counted)
        /\ dl.num <= Len(dl.downloads)
        /\ (\A i \in DOMAIN dl.task : dl.task[i] \in {"done", "failed"}) =>
              dl.num = Len(dl.downloads)

\* two tasks have both incremented the counter and are both in write_bytes
C24_Witness ==
    /\ dl.stage = "pool" /\ Len(dl.downloads) = 2
    /\ \A i \in DOMAIN dl.task : dl.task[i] \in Writing
    /\ dl.num = 2

====
